---- MODULE Spec2Model ----
(***************************************************************************)
(* DailyCloudWatchLogArchiver (src/index.ts): the constructor of the CDK   *)
(* construct, as a state machine whose steps are the constructor's         *)
(* statements.  A construct instance owns a construct-tree node; every     *)
(* "new X(this, id, ...)" adds a child under that id at once, and a second *)
(* child with the same id makes the constructs library throw.              *)
(***************************************************************************)
EXTENDS Integers, Sequences, FiniteSets, TLC

\* props.schedules.length > 60 is rejected
MaxSchedules == 60

\* job lists over ShortNames are enumerated up to this length
MaxShortLen == 2

\* two constructions, one after the other (synthesis is single-threaded)
Instances == {1, 2}

\* crypto.createHash('shake256', { outputLength: 4 }).update(data).digest('hex'),
\* tabulated (real digests) on the strings this model feeds it
shake256Hex4(data) ==
  CASE data = "TestingStack-TestingStackDailyCloudWatchLogArchiver2EC60B8E" -> "75e7f0d6"
    [] data = "ArchiverStack129350-ArchiverStack129350DailyCloudWatchLogArchiverBE288A46" -> "f3d3409c"
    [] data = "ArchiverStack174057-ArchiverStack174057DailyCloudWatchLogArchiverB5DACA5E" -> "f3d3409c"
    [] data = "daily-app-logs" -> "d2ce5d61"
    [] data = "audit-logs" -> "0231c397"
    [] data = "app-logs-16908" -> "a8eb12e2"
    [] data = "app-logs-42815" -> "a8eb12e2"
    [] data = "log-group-1" -> "63eb6207"
    [] data = "log-group-2" -> "c5e562ec"
    [] data = "log-group-3" -> "adf188a4"
    [] data = "log-group-4" -> "b9a14cba"
    [] data = "log-group-5" -> "43c0be51"
    [] data = "log-group-6" -> "390985ae"
    [] data = "log-group-7" -> "33f86b31"
    [] data = "log-group-8" -> "8c78f589"
    [] data = "log-group-9" -> "1f594e41"
    [] data = "log-group-10" -> "0b4bb2f8"
    [] data = "log-group-11" -> "0b13c981"
    [] data = "log-group-12" -> "2fc943bb"
    [] data = "log-group-13" -> "95982e68"
    [] data = "log-group-14" -> "7e544189"
    [] data = "log-group-15" -> "4ef31bc6"
    [] data = "log-group-16" -> "9de29bbc"
    [] data = "log-group-17" -> "7eec2468"
    [] data = "log-group-18" -> "841223e3"
    [] data = "log-group-19" -> "36a2a8c0"
    [] data = "log-group-20" -> "efa93e93"
    [] data = "log-group-21" -> "fdfade01"
    [] data = "log-group-22" -> "49e32db9"
    [] data = "log-group-23" -> "27833cf7"
    [] data = "log-group-24" -> "123c84d7"
    [] data = "log-group-25" -> "34ed2d9e"
    [] data = "log-group-26" -> "2524816b"
    [] data = "log-group-27" -> "caf7bba1"
    [] data = "log-group-28" -> "58a0aff1"
    [] data = "log-group-29" -> "56fb7bad"
    [] data = "log-group-30" -> "f655a8a0"
    [] data = "log-group-31" -> "874c1f6f"
    [] data = "log-group-32" -> "5d27cf94"
    [] data = "log-group-33" -> "4609055f"
    [] data = "log-group-34" -> "f8587425"
    [] data = "log-group-35" -> "2f9c507f"
    [] data = "log-group-36" -> "1347d1a2"
    [] data = "log-group-37" -> "7e6f9069"
    [] data = "log-group-38" -> "8c4baef9"
    [] data = "log-group-39" -> "9bb19a2f"
    [] data = "log-group-40" -> "590c1d38"
    [] data = "log-group-41" -> "fcde30a3"
    [] data = "log-group-42" -> "8556ba02"
    [] data = "log-group-43" -> "360e957a"
    [] data = "log-group-44" -> "da9a56d9"
    [] data = "log-group-45" -> "35955f25"
    [] data = "log-group-46" -> "db175778"
    [] data = "log-group-47" -> "a742ed38"
    [] data = "log-group-48" -> "5e9c56e9"
    [] data = "log-group-49" -> "d5197519"
    [] data = "log-group-50" -> "17a25c97"
    [] data = "log-group-51" -> "29030152"
    [] data = "log-group-52" -> "11e2651c"
    [] data = "log-group-53" -> "972ee1f4"
    [] data = "log-group-54" -> "2e81cbe2"
    [] data = "log-group-55" -> "6ecefec7"
    [] data = "log-group-56" -> "493b24c1"
    [] data = "log-group-57" -> "bfdae3d9"
    [] data = "log-group-58" -> "ad0251b7"
    [] data = "log-group-59" -> "326c7e87"
    [] data = "log-group-60" -> "1319fc34"
    [] data = "log-group-61" -> "5b09e331"
    [] data = "log-group-62" -> "1596356e"

\* job names of the short lists; the last two have the same fingerprint
ShortNames == {"daily-app-logs", "audit-logs", "app-logs-16908", "app-logs-42815"}

\* a ScheduleProperty; its other fields are told apart by the name
Job(name) ==
  [name |-> name,
   description |-> "archive " \o name,
   target |-> [logGroupName |-> "/aws/" \o name, destinationPrefix |-> name \o "/"]]

ShortJobLists ==
  UNION {{[i \in 1..m |-> Job(f[i])] : f \in [1..m -> ShortNames]} : m \in 0..MaxShortLen}

\* the lists at the cap: MaxSchedules and MaxSchedules + 1 jobs
LongJobLists ==
  {[i \in 1..n |-> Job("log-group-" \o ToString(i))] : n \in MaxSchedules..(MaxSchedules + 1)}

JobLists == ShortJobLists \cup LongJobLists

\* props.targetBucket?: string
Undefined == [undefined |-> TRUE, value |-> ""]
Str(s) == [undefined |-> FALSE, value |-> s]
TargetBuckets == {Undefined, Str(""), Str("existing-bucket")}

\* cdk.Names.uniqueId(scope) and cdk.Names.uniqueId(this); the last two pairs
\* yield the same randomNameKey
UniqueIds ==
  {[scope |-> "TestingStack", this |-> "TestingStackDailyCloudWatchLogArchiver2EC60B8E"],
   [scope |-> "ArchiverStack129350", this |-> "ArchiverStack129350DailyCloudWatchLogArchiverBE288A46"],
   [scope |-> "ArchiverStack174057", this |-> "ArchiverStack174057DailyCloudWatchLogArchiverB5DACA5E"]}

Reverse(s) == [i \in 1..Len(s) |-> s[Len(s) + 1 - i]]

region == "ap-northeast-1"

VARIABLES
  pc,             \* position of each constructor
  props,          \* its props argument
  uniqueId,       \* the unique ids of its scope and of itself
  randomNameKey,  \* the name suffix
  localBucket,    \* { bucketName, bucketARN }
  node,           \* children of the construct: construct id -> resource
  index,          \* loop index of the schedule loop
  error           \* message of the Error thrown, "" if none

vars == <<pc, props, uniqueId, randomNameKey, localBucket, node, index, error>>

NoProps == [schedules |-> <<>>, targetBucket |-> Undefined]
NoUniqueId == [scope |-> "", this |-> ""]
NoChildren == [id \in {} |-> {}]

Init ==
  /\ pc = [k \in Instances |-> "idle"]
  /\ props = [k \in Instances |-> NoProps]
  /\ uniqueId = [k \in Instances |-> NoUniqueId]
  /\ randomNameKey = [k \in Instances |-> ""]
  /\ localBucket = [k \in Instances |-> [bucketName |-> "", bucketARN |-> ""]]
  /\ node = [k \in Instances |-> NoChildren]
  /\ index = [k \in Instances |-> 0]
  /\ error = [k \in Instances |-> ""]

\* new X(this, id, ...): the child is added to the tree under id
AddChild(k, id, resource) ==
  node' = [node EXCEPT ![k] = [c \in DOMAIN node[k] \cup {id} |->
                                  IF c = id THEN resource ELSE node[k][c]]]

Throw(k, message) ==
  /\ pc' = [pc EXCEPT ![k] = "failed"]
  /\ error' = [error EXCEPT ![k] = message]

\* the cap applied one too early
TooManySchedules_AtCap(schedules) == Len(schedules) >= MaxSchedules

\* props.schedules.length > 60
TooManySchedules(schedules) == Len(schedules) > MaxSchedules

\* the empty string taken as a bucket name
NoTargetBucket_UndefinedOnly(targetBucket) == targetBucket.undefined

\* props.targetBucket === undefined || props.targetBucket.length === 0
NoTargetBucket(targetBucket) == targetBucket.undefined \/ Len(targetBucket.value) = 0

\* the props an instance is constructed with: the first with any job list,
\* the next with the same jobs in the same or in the opposite order
PropsFor(k) ==
  [schedules : IF k = 1 THEN JobLists
               ELSE {props[k - 1].schedules, Reverse(props[k - 1].schedules)},
   targetBucket : TargetBuckets]

\* constructor entry: super(scope, id), props validation, randomNameKey
Construct(k) ==
  /\ pc[k] = "idle"
  /\ \A j \in Instances : j < k => pc[j] \in {"done", "failed"}
  /\ \E p \in PropsFor(k), u \in UniqueIds :
       /\ props' = [props EXCEPT ![k] = p]
       /\ uniqueId' = [uniqueId EXCEPT ![k] = u]
       /\ IF Len(p.schedules) = 0
            THEN Throw(k, "Schedule not set.") /\ UNCHANGED randomNameKey
          ELSE IF TooManySchedules(p.schedules)
            THEN Throw(k, "Maximum number(60) of schedule.") /\ UNCHANGED randomNameKey
          ELSE /\ pc' = [pc EXCEPT ![k] = "bucket"]
               /\ randomNameKey' = [randomNameKey EXCEPT ![k] = shake256Hex4(u.scope \o "-" \o u.this)]
               /\ UNCHANGED error
  /\ UNCHANGED <<localBucket, node, index>>

BucketArn(bucketName) == "arn:aws:s3:::" \o bucketName

LogsPrincipal == "logs." \o region \o ".amazonaws.com"

\* the two statements added to the new bucket's resource policy
LogsDeliveryStatements(bucketArn) ==
  {[effect |-> "Allow", principals |-> {LogsPrincipal}, actions |-> {"s3:GetBucketAcl"},
    resources |-> {bucketArn}, conditions |-> {}],
   [effect |-> "Allow", principals |-> {LogsPrincipal}, actions |-> {"s3:PutObject"},
    resources |-> {bucketArn \o "/*"},
    conditions |-> {<<"StringEquals", "s3:x-amz-acl", "bucket-owner-full-control">>}]}

\* targetBucket absent or empty: new SecureLogBucket(this, 'LogArchiveBucket', ...)
CreateLogArchiveBucket(k) ==
  /\ pc[k] = "bucket"
  /\ NoTargetBucket(props[k].targetBucket)
  /\ LET bucketName == "log-archive-" \o randomNameKey[k]
     IN /\ AddChild(k, "LogArchiveBucket",
                    [type |-> "SecureLogBucket", bucketName |-> bucketName,
                     bucketArn |-> BucketArn(bucketName),
                     resourcePolicy |-> LogsDeliveryStatements(BucketArn(bucketName))])
        /\ localBucket' = [localBucket EXCEPT ![k] =
                             [bucketName |-> bucketName, bucketARN |-> BucketArn(bucketName)]]
  /\ pc' = [pc EXCEPT ![k] = "lambdaExecutionRole"]
  /\ UNCHANGED <<props, uniqueId, randomNameKey, index, error>>

\* otherwise: Bucket.fromBucketName(this, 'existingBucket', props.targetBucket)
ImportExistingBucket(k) ==
  /\ pc[k] = "bucket"
  /\ ~NoTargetBucket(props[k].targetBucket)
  /\ LET bucketName == props[k].targetBucket.value
     IN /\ AddChild(k, "existingBucket",
                    [type |-> "ImportedBucket", bucketName |-> bucketName,
                     bucketArn |-> BucketArn(bucketName)])
        /\ localBucket' = [localBucket EXCEPT ![k] =
                             [bucketName |-> bucketName, bucketARN |-> BucketArn(bucketName)]]
  /\ pc' = [pc EXCEPT ![k] = "lambdaExecutionRole"]
  /\ UNCHANGED <<props, uniqueId, randomNameKey, index, error>>

\* actions of the AWS managed policy service-role/AWSLambdaBasicExecutionRole
ManagedPolicyActions(policyName) ==
  IF policyName = "service-role/AWSLambdaBasicExecutionRole"
    THEN {"logs:CreateLogGroup", "logs:CreateLogStream", "logs:PutLogEvents"}
    ELSE {}

\* resources of the 'put-bucket-policy' statement
PutBucketPolicyResources(bucket) == {bucket.bucketARN}

\* new iam.Role(this, 'LambdaExecutionRole', ...)
CreateLambdaExecutionRole(k) ==
  /\ pc[k] = "lambdaExecutionRole"
  /\ AddChild(k, "LambdaExecutionRole",
       [type |-> "Role",
        roleName |-> "daily-cw-log-archiver-lambda-exec-" \o randomNameKey[k] \o "-role",
        assumedBy |-> {"lambda.amazonaws.com"},
        managedPolicies |-> {"service-role/AWSLambdaBasicExecutionRole"},
        inlinePolicies |->
          [name \in {"log-export-policy", "put-bucket-policy"} |->
             IF name = "log-export-policy"
               THEN {[effect |-> "Allow", actions |-> {"logs:CreateExportTask"},
                      resources |-> {"*"}]}
               ELSE {[effect |-> "Allow", actions |-> {"s3:GetBucketAcl", "s3:PutObject"},
                      resources |-> PutBucketPolicyResources(localBucket[k])]}]])
  /\ pc' = [pc EXCEPT ![k] = "lambdaFunction"]
  /\ UNCHANGED <<props, uniqueId, randomNameKey, localBucket, index, error>>

FunctionArn(functionName) == "arn:aws:lambda:" \o region \o ":function:" \o functionName

\* environment of the function
FunctionEnvironment(bucket) == [BUCKET_NAME |-> bucket.bucketName]

\* new LogArchiverFunction(this, 'LogArchiveFunction', ...)
CreateLambdaFunction(k) ==
  /\ pc[k] = "lambdaFunction"
  /\ LET functionName == "daily-cw-log-archiver-" \o randomNameKey[k] \o "-func"
     IN AddChild(k, "LogArchiveFunction",
          [type |-> "LogArchiverFunction", functionName |-> functionName,
           functionArn |-> FunctionArn(functionName),
           environment |-> FunctionEnvironment(localBucket[k]),
           role |-> node[k]["LambdaExecutionRole"].roleName])
  /\ pc' = [pc EXCEPT ![k] = "schedulerExecutionRole"]
  /\ UNCHANGED <<props, uniqueId, randomNameKey, localBucket, index, error>>

\* invoke on every function
InvokeResources_Any(functionArn) == {"*"}

\* resources of the 'lambda-invoke-policy' statement
InvokeResources(functionArn) == {functionArn, functionArn \o ":*"}

\* new iam.Role(this, 'SchedulerExecutionRole', ...); the role is unnamed,
\* its ARN is that of the construct
CreateSchedulerExecutionRole(k) ==
  /\ pc[k] = "schedulerExecutionRole"
  /\ AddChild(k, "SchedulerExecutionRole",
       [type |-> "Role",
        roleArn |-> "arn:aws:iam:::role/" \o uniqueId[k].this \o "SchedulerExecutionRole",
        assumedBy |-> {"scheduler.amazonaws.com"},
        managedPolicies |-> {},
        inlinePolicies |->
          [name \in {"lambda-invoke-policy"} |->
             {[effect |-> "Allow", actions |-> {"lambda:InvokeFunction"},
               resources |-> InvokeResources(node[k]["LogArchiveFunction"].functionArn)]}]])
  /\ pc' = [pc EXCEPT ![k] = "scheduleGroup"]
  /\ UNCHANGED <<props, uniqueId, randomNameKey, localBucket, index, error>>

\* new scheduler.CfnScheduleGroup(this, 'ScheduleGroup', ...)
CreateScheduleGroup(k) ==
  /\ pc[k] = "scheduleGroup"
  /\ AddChild(k, "ScheduleGroup",
       [type |-> "CfnScheduleGroup",
        name |-> "log-archive-schedule-" \o randomNameKey[k] \o "-group"])
  /\ pc' = [pc EXCEPT ![k] = "schedules"]
  /\ UNCHANGED <<props, uniqueId, randomNameKey, localBucket, index, error>>

\* the construct id taken from the loop index
ScheduleId_ByIndex(i, schedule) == "Schedule" \o ToString(i)

\* `Schedule${idPrefix}`, idPrefix the fingerprint of schedule.name
ScheduleId(i, schedule) == "Schedule" \o shake256Hex4(schedule.name)

\* `cron(${index} 13 * * ? *)`
ScheduleExpression(i) == "cron(" \o ToString(i) \o " 13 * * ? *)"

\* the two target fields exchanged
ScheduleInput_Swapped(schedule) ==
  "{\"logGroupName\":\"" \o schedule.target.destinationPrefix
    \o "\",\"destinationPrefix\":\"" \o schedule.target.logGroupName \o "\"}"

\* JSON.stringify({ logGroupName: ..., destinationPrefix: ... })
ScheduleInput(schedule) ==
  "{\"logGroupName\":\"" \o schedule.target.logGroupName
    \o "\",\"destinationPrefix\":\"" \o schedule.target.destinationPrefix \o "\"}"

\* the properties of the CfnSchedule of the job at (zero-based) index i
CfnSchedule(k, i, schedule) ==
  [type |-> "CfnSchedule",
   name |-> schedule.name,
   description |-> schedule.description,
   state |-> "ENABLED",
   groupName |-> node[k]["ScheduleGroup"].name,
   flexibleTimeWindow |-> [mode |-> "OFF"],
   scheduleExpressionTimezone |-> "UTC",
   scheduleExpression |-> ScheduleExpression(i),
   target |-> [arn |-> node[k]["LogArchiveFunction"].functionArn,
               roleArn |-> node[k]["SchedulerExecutionRole"].roleArn,
               input |-> ScheduleInput(schedule),
               retryPolicy |-> [maximumEventAgeInSeconds |-> 60,
                                maximumRetryAttempts |-> 0]]]

\* one iteration of the loop over Object.entries(props.schedules); the
\* constructor returns after the last one.  A construct id already in use
\* makes new CfnSchedule throw, the children added so far stay in the tree.
CreateSchedule(k) ==
  /\ pc[k] = "schedules"
  /\ LET i == index[k]
         schedule == props[k].schedules[i + 1]
         id == ScheduleId(i, schedule)
     IN IF id \in DOMAIN node[k]
          THEN /\ Throw(k, "There is already a Construct with name '" \o id \o "'")
               /\ UNCHANGED <<node, index>>
          ELSE /\ AddChild(k, id, CfnSchedule(k, i, schedule))
               /\ index' = [index EXCEPT ![k] = i + 1]
               /\ pc' = [pc EXCEPT ![k] =
                           IF i + 1 = Len(props[k].schedules) THEN "done" ELSE "schedules"]
               /\ UNCHANGED error
  /\ UNCHANGED <<props, uniqueId, randomNameKey, localBucket>>

Next ==
  \E k \in Instances :
    \/ Construct(k)
    \/ CreateLogArchiveBucket(k)
    \/ ImportExistingBucket(k)
    \/ CreateLambdaExecutionRole(k)
    \/ CreateLambdaFunction(k)
    \/ CreateSchedulerExecutionRole(k)
    \/ CreateScheduleGroup(k)
    \/ CreateSchedule(k)

Spec == Init /\ [][Next]_vars

-----------------------------------------------------------------------------
(* Properties *)

Started(k) == pc[k] # "idle"
Ended(k) == pc[k] \in {"done", "failed"}

\* the construct ids of the schedules in the tree of instance k
Schedules(k) == {id \in DOMAIN node[k] : node[k][id].type = "CfnSchedule"}

NamesDistinct(s) == \A i, j \in 1..Len(s) : i # j => s[i].name # s[j].name

Cron(minute) == "cron(" \o ToString(minute) \o " 13 * * ? *)"

\* the service an IAM action belongs to
ServiceOf(action) ==
  CASE action \in {"logs:CreateExportTask", "logs:CreateLogGroup",
                   "logs:CreateLogStream", "logs:PutLogEvents"} -> "logs"
    [] action \in {"s3:GetBucketAcl", "s3:PutObject"} -> "s3"
    [] action = "lambda:InvokeFunction" -> "lambda"
    [] OTHER -> "other"

\* every action a role allows, through inline and managed policies
RoleActions(role) ==
  UNION {st.actions : st \in UNION {role.inlinePolicies[n] : n \in DOMAIN role.inlinePolicies}}
    \cup UNION {ManagedPolicyActions(m) : m \in role.managedPolicies}

RoleStatements(role) == UNION {role.inlinePolicies[n] : n \in DOMAIN role.inlinePolicies}

\* C1: for a job list of 1..60 jobs with pairwise distinct names, a finished
\* construction has emitted exactly one schedule per job, the cron minutes
\* used are exactly 0..n-1, and the job at position i has minute i.
C1_OneSchedulePerJob ==
  \A k \in Instances :
    LET s == props[k].schedules
        n == Len(s)
    IN (Ended(k) /\ n \in 1..MaxSchedules /\ NamesDistinct(s)) =>
         /\ Cardinality(Schedules(k)) = n
         /\ {node[k][id].scheduleExpression : id \in Schedules(k)} = {Cron(m) : m \in 0..(n - 1)}
         /\ \A i \in 1..n : \E id \in Schedules(k) :
              /\ node[k][id].name = s[i].name
              /\ node[k][id].scheduleExpression = Cron(i - 1)

\* C2: a job list of length 0 or of more than 60 makes the construction fail
\* with the configuration error of its case and leaves the tree without any
\* child; a list of 1..60 jobs (60 included) passes both checks.
C2_LengthValidation ==
  \A k \in Instances :
    LET n == Len(props[k].schedules)
    IN Started(k) =>
         /\ n = 0 => pc[k] = "failed" /\ error[k] = "Schedule not set." /\ DOMAIN node[k] = {}
         /\ n > 60 => /\ pc[k] = "failed"
                      /\ error[k] = "Maximum number(60) of schedule."
                      /\ DOMAIN node[k] = {}
         /\ n \in 1..60 => error[k] \notin {"Schedule not set.", "Maximum number(60) of schedule."}

C2_Witness ==
  \E k \in Instances :
    /\ Len(props[k].schedules) = 61
    /\ pc[k] = "failed"
    /\ error[k] = "Maximum number(60) of schedule."

\* C3: once the bucket is resolved exactly one of the two bucket constructs
\* exists: the new bucket log-archive-<suffix> iff targetBucket is undefined
\* or empty, the imported one iff it is non-empty; the two logs-delivery
\* statements are on the new bucket and the imported one has no policy; the
\* resolved name and ARN are those in the execution role and in BUCKET_NAME.
C3_BucketMode ==
  \A k \in Instances :
    LET managed == "LogArchiveBucket" \in DOMAIN node[k]
        external == "existingBucket" \in DOMAIN node[k]
        t == props[k].targetBucket
    IN pc[k] \notin {"idle", "bucket"} /\ error[k] \notin {"Schedule not set.", "Maximum number(60) of schedule."} =>
         /\ managed # external
         /\ managed <=> (t.undefined \/ t.value = "")
         /\ managed =>
              LET b == node[k]["LogArchiveBucket"]
              IN /\ b.bucketName = "log-archive-" \o randomNameKey[k]
                 /\ localBucket[k] = [bucketName |-> b.bucketName, bucketARN |-> b.bucketArn]
                 /\ Cardinality(b.resourcePolicy) = 2
                 /\ \E st \in b.resourcePolicy :
                      st.actions = {"s3:GetBucketAcl"} /\ st.resources = {b.bucketArn}
                 /\ \E st \in b.resourcePolicy :
                      /\ st.actions = {"s3:PutObject"}
                      /\ st.resources = {b.bucketArn \o "/*"}
                      /\ st.conditions = {<<"StringEquals", "s3:x-amz-acl", "bucket-owner-full-control">>}
         /\ external =>
              LET b == node[k]["existingBucket"]
              IN /\ b.bucketName = t.value
                 /\ localBucket[k] = [bucketName |-> b.bucketName, bucketARN |-> b.bucketArn]
                 /\ "resourcePolicy" \notin DOMAIN b
         /\ "LambdaExecutionRole" \in DOMAIN node[k] =>
              \A st \in node[k]["LambdaExecutionRole"].inlinePolicies["put-bucket-policy"] :
                localBucket[k].bucketARN \in st.resources
         /\ "LogArchiveFunction" \in DOMAIN node[k] =>
              node[k]["LogArchiveFunction"].environment.BUCKET_NAME = localBucket[k].bucketName

C3_Witness ==
  \E k \in Instances :
    /\ pc[k] = "done"
    /\ props[k].targetBucket = Str("existing-bucket")
    /\ "existingBucket" \in DOMAIN node[k]
    /\ node[k]["LogArchiveFunction"].environment.BUCKET_NAME = "existing-bucket"

\* C4: whenever the construction has raised an error, the tree of the
\* construct holds no bucket, role, function, schedule group or schedule.
C4_AllOrNothing ==
  \A k \in Instances : pc[k] = "failed" => DOMAIN node[k] = {}

\* C5: the execution role is trusted by the Lambda service only, has the
\* baseline execution policy, allows logs:CreateExportTask on '*', and allows
\* s3:GetBucketAcl and s3:PutObject on the bucket ARN and on <bucket ARN>/*,
\* and nothing else.
C5_ExecutionRole ==
  \A k \in Instances :
    "LambdaExecutionRole" \in DOMAIN node[k] =>
      LET role == node[k]["LambdaExecutionRole"]
      IN /\ role.assumedBy = {"lambda.amazonaws.com"}
         /\ role.managedPolicies = {"service-role/AWSLambdaBasicExecutionRole"}
         /\ RoleStatements(role) =
              {[effect |-> "Allow", actions |-> {"logs:CreateExportTask"}, resources |-> {"*"}],
               [effect |-> "Allow", actions |-> {"s3:GetBucketAcl", "s3:PutObject"},
                resources |-> {localBucket[k].bucketARN, localBucket[k].bucketARN \o "/*"}]}

\* C6: the scheduler role is trusted by the scheduler service only and its
\* only permission is lambda:InvokeFunction on the function ARN and on that
\* ARN followed by ':*'; it allows no logs or S3 action, and the execution
\* role allows no scheduler or lambda action.
C6_SchedulerRole ==
  \A k \in Instances :
    "SchedulerExecutionRole" \in DOMAIN node[k] =>
      LET role == node[k]["SchedulerExecutionRole"]
          arn == node[k]["LogArchiveFunction"].functionArn
      IN /\ role.assumedBy = {"scheduler.amazonaws.com"}
         /\ role.managedPolicies = {}
         /\ RoleStatements(role) =
              {[effect |-> "Allow", actions |-> {"lambda:InvokeFunction"},
                resources |-> {arn, arn \o ":*"}]}
         /\ \A a \in RoleActions(role) : ServiceOf(a) \notin {"logs", "s3"}
         /\ \A a \in RoleActions(node[k]["LambdaExecutionRole"]) :
              ServiceOf(a) \notin {"scheduler", "lambda"}

C6_Witness ==
  \E k \in Instances :
    /\ pc[k] = "done"
    /\ "lambda:InvokeFunction" \in RoleActions(node[k]["SchedulerExecutionRole"])
    /\ "s3:PutObject" \in RoleActions(node[k]["LambdaExecutionRole"])

\* the schedule expression of the schedule emitted for the job of that name
ExpressionOf(k, name) ==
  node[k][CHOOSE id \in Schedules(k) : node[k][id].name = name].scheduleExpression

IdOf(k, name) == CHOOSE id \in Schedules(k) : node[k][id].name = name

\* two finished constructions of the same two jobs in opposite orders
Swapped(p, q) ==
  /\ pc[p] = "done" /\ pc[q] = "done"
  /\ Len(props[p].schedules) = 2
  /\ props[p].schedules[1].name # props[p].schedules[2].name
  /\ props[q].schedules = <<props[p].schedules[2], props[p].schedules[1]>>

\* C7: a schedule's construct id is the same in every construction that
\* emits a schedule for a job of that name, whatever the job's position,
\* while its cron minute is the job's position; for the same two jobs in
\* the orders [A,B] and [B,A] the minutes are 0,1 and 1,0 and the ids agree.
C7_ReorderKeepsIds ==
  /\ \A p, q \in Instances : \A id1 \in Schedules(p), id2 \in Schedules(q) :
       node[p][id1].name = node[q][id2].name => id1 = id2
  /\ \A k \in Instances : \A id \in Schedules(k) :
       \E i \in 1..index[k] :
         /\ props[k].schedules[i].name = node[k][id].name
         /\ node[k][id].scheduleExpression = Cron(i - 1)
  /\ \A p, q \in Instances :
       Swapped(p, q) =>
         LET A == props[p].schedules[1].name
             B == props[p].schedules[2].name
         IN /\ ExpressionOf(p, A) = Cron(0) /\ ExpressionOf(q, A) = Cron(1)
            /\ ExpressionOf(p, B) = Cron(1) /\ ExpressionOf(q, B) = Cron(0)
            /\ IdOf(p, A) = IdOf(q, A)
            /\ IdOf(p, B) = IdOf(q, B)

C7_Witness ==
  /\ Swapped(1, 2)
  /\ ExpressionOf(1, "daily-app-logs") = Cron(0)
  /\ ExpressionOf(2, "daily-app-logs") = Cron(1)

\* C9: a construction never fails on a schedule's construct id when the job
\* names are pairwise distinct (different names, different ids), and two
\* constructions with different identity strings have different name suffixes.
C9_NoCollision ==
  /\ \A k \in Instances :
       (pc[k] = "failed" /\ DOMAIN node[k] # {}) => ~NamesDistinct(props[k].schedules)
  /\ \A p, q \in Instances :
       (randomNameKey[p] # "" /\ randomNameKey[q] # "" /\ uniqueId[p] # uniqueId[q]) =>
         randomNameKey[p] # randomNameKey[q]

\* C10: every emitted schedule has the name, the description and the JSON
\* payload of one job of the list, the retry policy 60 s / 0 attempts, and
\* the function ARN, scheduler role ARN and schedule group of its construct.
C10_ScheduleFields ==
  \A k \in Instances : \A id \in Schedules(k) :
    LET r == node[k][id]
    IN /\ \E i \in 1..Len(props[k].schedules) :
            LET job == props[k].schedules[i]
            IN /\ r.name = job.name
               /\ r.description = job.description
               /\ r.target.input = "{\"logGroupName\":\"" \o job.target.logGroupName
                                     \o "\",\"destinationPrefix\":\""
                                     \o job.target.destinationPrefix \o "\"}"
       /\ r.name = "daily-app-logs" =>
            r.target.input =
              "{\"logGroupName\":\"/aws/daily-app-logs\",\"destinationPrefix\":\"daily-app-logs/\"}"
       /\ r.target.retryPolicy = [maximumEventAgeInSeconds |-> 60, maximumRetryAttempts |-> 0]
       /\ r.target.arn = node[k]["LogArchiveFunction"].functionArn
       /\ r.target.roleArn = node[k]["SchedulerExecutionRole"].roleArn
       /\ r.groupName = node[k]["ScheduleGroup"].name

C10_Witness ==
  \E k \in Instances :
    /\ pc[k] = "done"
    /\ Cardinality(Schedules(k)) = 2
    /\ \E id \in Schedules(k) : node[k][id].name = "audit-logs"
    /\ \E id \in Schedules(k) : node[k][id].name = "daily-app-logs"
====
